---- MODULE Spec2Model ----
(***************************************************************************)
(* The to-do list with undo/redo and the sign-up / log-in session of       *)
(* app.py.  Python objects are modelled with their identity: a ToDoStack   *)
(* is a small object graph (list objects holding references to task dict   *)
(* objects), so that copying, aliasing and in-place mutation are what the  *)
(* code makes them.  A text is a sequence of characters.                   *)
(***************************************************************************)
EXTENDS Integers, Sequences, FiniteSets, TLC

VARIABLES
    todo,          \* st.session_state.todo: the ToDoStack object graph
    users,         \* st.session_state.users: username -> password hash
    current_user,  \* st.session_state.current_user
    show_panel,    \* st.session_state.show_panel
    message,       \* what the last call reported (st.warning / st.error / st.success, return value)
    last_op,       \* the call or widget event the last step handled
    mutations,     \* number of effective add/remove/clear calls, while no other call was made
    logged         \* the usernames that have been the session identity

vars == <<todo, users, current_user, show_panel, message, last_op, mutations, logged>>

\* ------------------------------------------------------------------ bounds
MaxTasks == 2      \* add_task is not called on a list of this length
MaxHist  == 3      \* no snapshot is pushed onto an undo stack of this length
MaxPageHist == 2   \* the same, for the ToDoStack driven through the page

\* ------------------------------------------------------------------ values
\* Python's None: a value that is no text and no datetime.
None == <<"None">>

\* The characters of the texts tried; " " is the whitespace character.
Space == " "

\* Texts given to add_task: empty, whitespace only, plain, with surrounding blanks.
Texts == {<<>>, <<Space, Space, Space>>, <<"a">>, <<Space, "b", Space>>}

\* A task as a value: the dict {"text": text, "deadline": deadline}.
Task(text, deadline) == [text |-> text, deadline |-> deadline]

\* A date is <<year, month, day>>, a time of day <<hour, minute>>, a datetime
\* <<date, time>>.
Midnight == <<0, 0>>

Today == <<2026, 11, 6>>

Deadlines == {None, <<Today, Midnight>>}

\* The arguments add_task is called with: each text, without a deadline or
\* with one.
Arguments ==
    {Task(<<>>, None), Task(<<Space, Space, Space>>, None),
     Task(<<"a">>, None), Task(<<Space, "b", Space>>, <<Today, Midnight>>)}

\* Python's object identities, enough for every list and dict alive at once.
ListIds == 1..(MaxHist + 3)

DictIds == 1..((MaxHist + 3) * (MaxTasks + 1))

Range(s) == {s[i] : i \in DOMAIN s}

Min(S) == CHOOSE x \in S : \A y \in S : x <= y

\* str.strip(): the text without its leading and trailing whitespace.
RECURSIVE lstrip(_)
lstrip(s) == IF s # <<>> /\ Head(s) = Space THEN lstrip(Tail(s)) ELSE s

RECURSIVE rstrip(_)
rstrip(s) ==
    IF s # <<>> /\ s[Len(s)] = Space THEN rstrip(SubSeq(s, 1, Len(s) - 1)) ELSE s

strip(s) == rstrip(lstrip(s))

\* Python truthiness of a str: the empty string is falsy, any other is truthy.
Truthy(s) == s # <<>> /\ s # None

\* ------------------------------------------------------------------ objects
\* The first n identities of pool that are not in used, in increasing order.
RECURSIVE FreshIds(_, _, _)
FreshIds(used, n, pool) ==
    IF n = 0 THEN <<>>
    ELSE LET x == Min(pool \ used)
         IN  <<x>> \o FreshIds(used \cup {x}, n - 1, pool)

\* ToDoStack.__init__: an empty task list, empty undo and redo stacks.
ToDoStack ==
    [lists      |-> (1 :> <<>>),
     dicts      |-> << >>,
     tasks      |-> 1,
     undo_stack |-> <<>>,
     redo_stack |-> <<>>]

\* The concatenation of the sequences of a sequence.
RECURSIVE Flatten(_)
Flatten(ss) == IF ss = <<>> THEN <<>> ELSE Head(ss) \o Flatten(Tail(ss))

\* The number x gets when the distinct elements of s are numbered in the order
\* of their first occurrence.
Canon(s, x) ==
    LET first == Min({i \in DOMAIN s : s[i] = x})
    IN  Cardinality({s[j] : j \in 1..first})

\* The objects still referenced from the ToDoStack; the others are garbage.
\* Identities are renamed in the order the objects are met from the undo stack,
\* the task list and the redo stack: a renaming keeps every sharing of an
\* object and every difference of two objects, and nothing else of an identity
\* is read by the code.
Collect(self) ==
    LET refs == self.undo_stack \o <<self.tasks>> \o self.redo_stack
        drefs == Flatten([i \in DOMAIN refs |-> self.lists[refs[i]]])
        L(l) == Canon(refs, l)
        D(d) == Canon(drefs, d)
    IN  [lists |-> [n \in {L(l) : l \in Range(refs)} |->
                      LET l == CHOOSE l \in Range(refs) : L(l) = n
                      IN  [i \in DOMAIN self.lists[l] |-> D(self.lists[l][i])]],
         dicts |-> [n \in {D(d) : d \in Range(drefs)} |->
                      self.dicts[CHOOSE d \in Range(drefs) : D(d) = n]],
         tasks |-> L(self.tasks),
         undo_stack |-> [i \in DOMAIN self.undo_stack |-> L(self.undo_stack[i])],
         redo_stack |-> [i \in DOMAIN self.redo_stack |-> L(self.redo_stack[i])]]

\* A copy of the list object only: the copy holds the same task objects.
deepcopy_shallow(self, l) ==
    LET nl == Min(ListIds \ DOMAIN self.lists)
    IN  [obj |-> [self EXCEPT !.lists = (nl :> self.lists[l]) @@ self.lists],
         ref |-> nl]

\* copy.deepcopy(l): a new list object holding a new dict object for each dict
\* of l (one per distinct dict: deepcopy memoises), with equal fields.
deepcopy(self, l) ==
    LET olds  == Range(self.lists[l])
        fresh == FreshIds(DOMAIN self.dicts, Cardinality(olds), DictIds)
        rank(d) == Cardinality({e \in olds : e <= d})
        new(d) == fresh[rank(d)]
        nl == Min(ListIds \ DOMAIN self.lists)
        copied == [n \in Range(fresh) |->
                     self.dicts[CHOOSE d \in olds : new(d) = n]]
    IN  [obj |-> [self EXCEPT
                    !.lists = (nl :> [i \in DOMAIN self.lists[l] |-> new(self.lists[l][i])])
                              @@ self.lists,
                    !.dicts = copied @@ self.dicts],
         ref |-> nl]

\* A snapshot that is the live list itself, not a copy of it.
snapshot_alias(self) ==
    [self EXCEPT !.undo_stack = Append(self.undo_stack, self.tasks)]

\* _snapshot_for_undo: self._undo_stack.append(deepcopy(self.tasks))
snapshot_for_undo(self) ==
    LET c == deepcopy(self, self.tasks)
    IN  [c.obj EXCEPT !.undo_stack = Append(self.undo_stack, c.ref)]

\* A pop that takes the index as counted from one.
Pop_one_based(s, index) == SubSeq(s, 1, index - 1) \o SubSeq(s, index + 1, Len(s))

\* list.pop(index) for 0 <= index < len: the list without that element.
Pop(s, index) == SubSeq(s, 1, index) \o SubSeq(s, index + 2, Len(s))

\* An add_task that pushes no snapshot.
add_task_no_snapshot(self, text, deadline) ==
    IF ~Truthy(text) THEN self
    ELSE LET d == Min(DictIds \ DOMAIN self.dicts)
         IN  Collect([self EXCEPT
                 !.dicts = (d :> Task(text, deadline)) @@ self.dicts,
                 !.lists[self.tasks] = Append(self.lists[self.tasks], d),
                 !.redo_stack = <<>>])

\* add_task(text, deadline)
add_task(self, text, deadline) ==
    IF ~Truthy(text) THEN self
    ELSE LET s == snapshot_for_undo(self)
             d == Min(DictIds \ DOMAIN s.dicts)
         IN  Collect([s EXCEPT
                 !.dicts = (d :> Task(text, deadline)) @@ s.dicts,
                 !.lists[s.tasks] = Append(s.lists[s.tasks], d),
                 !.redo_stack = <<>>])

\* A remove_task without the lower guard: list.pop(-1) removes the last task.
remove_task_no_lower_guard(self, index) ==
    IF index >= Len(self.lists[self.tasks]) THEN self
    ELSE LET c  == deepcopy(self, self.tasks)
             t  == [c.obj EXCEPT !.undo_stack = Append(self.undo_stack, c.ref)]
             n  == Len(self.lists[self.tasks])
             at == IF index < 0 THEN index + n ELSE index
         IN  Collect([t EXCEPT
                 !.lists[t.tasks] = SubSeq(@, 1, at) \o SubSeq(@, at + 2, n),
                 !.redo_stack = <<>>])

\* remove_task(index)
remove_task(self, index) ==
    IF index < 0 \/ index >= Len(self.lists[self.tasks]) THEN self
    ELSE LET s == snapshot_for_undo(self)
         IN  Collect([s EXCEPT
                 !.lists[s.tasks] = Pop(s.lists[s.tasks], index),
                 !.redo_stack = <<>>])

\* A clear without its guard: it snapshots and empties an empty list too.
clear_unguarded(self) ==
    LET s  == snapshot_for_undo(self)
        nl == Min(ListIds \ DOMAIN s.lists)
    IN  Collect([s EXCEPT
            !.lists = (nl :> <<>>) @@ s.lists,
            !.tasks = nl,
            !.redo_stack = <<>>])

\* A clear that leaves the redo stack as it is.
clear_keeps_redo(self) ==
    IF self.lists[self.tasks] = <<>> THEN self
    ELSE LET c  == deepcopy(self, self.tasks)
             t  == [c.obj EXCEPT !.undo_stack = Append(self.undo_stack, c.ref)]
             nl == Min(ListIds \ DOMAIN t.lists)
         IN  Collect([t EXCEPT !.lists = (nl :> <<>>) @@ t.lists, !.tasks = nl])

\* clear()
clear(self) ==
    IF self.lists[self.tasks] = <<>> THEN self
    ELSE LET s  == snapshot_for_undo(self)
             nl == Min(ListIds \ DOMAIN s.lists)
         IN  Collect([s EXCEPT
                 !.lists = (nl :> <<>>) @@ s.lists,
                 !.tasks = nl,
                 !.redo_stack = <<>>])

\* An undo that restores the oldest snapshot instead of the newest.
undo_pop_oldest(self) ==
    IF self.undo_stack = <<>> THEN self
    ELSE LET c == deepcopy(self, self.tasks)
         IN  Collect([c.obj EXCEPT
                 !.redo_stack = Append(self.redo_stack, c.ref),
                 !.tasks = self.undo_stack[1],
                 !.undo_stack = Tail(self.undo_stack)])

\* An undo that does not keep the current list for redo.
undo_no_redo_push(self) ==
    IF self.undo_stack = <<>> THEN self
    ELSE LET n == Len(self.undo_stack)
         IN  Collect([self EXCEPT
                 !.tasks = self.undo_stack[n],
                 !.undo_stack = SubSeq(self.undo_stack, 1, n - 1)])

\* undo()
undo(self) ==
    IF self.undo_stack = <<>> THEN self
    ELSE LET c == deepcopy(self, self.tasks)
             n == Len(self.undo_stack)
         IN  Collect([c.obj EXCEPT
                 !.redo_stack = Append(self.redo_stack, c.ref),
                 !.tasks = self.undo_stack[n],
                 !.undo_stack = SubSeq(self.undo_stack, 1, n - 1)])

\* A redo that does not keep the current list for undo.
redo_no_undo_push(self) ==
    IF self.redo_stack = <<>> THEN self
    ELSE LET n == Len(self.redo_stack)
         IN  Collect([self EXCEPT
                 !.tasks = self.redo_stack[n],
                 !.redo_stack = SubSeq(self.redo_stack, 1, n - 1)])

\* redo()
redo(self) ==
    IF self.redo_stack = <<>> THEN self
    ELSE LET c == deepcopy(self, self.tasks)
             n == Len(self.redo_stack)
         IN  Collect([c.obj EXCEPT
                 !.undo_stack = Append(self.undo_stack, c.ref),
                 !.tasks = self.redo_stack[n],
                 !.redo_stack = SubSeq(self.redo_stack, 1, n - 1)])

\* ------------------------------------------------------------------ views
\* The value of list object l: the task dicts it holds, in order.
ListValue(self, l) == [i \in DOMAIN self.lists[l] |-> self.dicts[self.lists[l][i]]]

\* tasks(): the current task list, as values.
TasksOf(self) == ListValue(self, self.tasks)

\* The snapshots of a stack, as values, oldest first.
StackOf(self, stack) == [i \in DOMAIN stack |-> ListValue(self, stack[i])]

UndoOf(self) == StackOf(self, self.undo_stack)

RedoOf(self) == StackOf(self, self.redo_stack)

\* What a caller can observe of a ToDoStack: the three collections as values.
View(self) == [tasks |-> TasksOf(self), undo |-> UndoOf(self), redo |-> RedoOf(self)]

\* The texts of the tasks of the live list, in order.
TextsOf(self) == [k \in DOMAIN TasksOf(self) |-> TasksOf(self)[k].text]

\* can_undo = bool(todo._undo_stack)
can_undo(self) == self.undo_stack # <<>>

\* A can_redo that reads the undo stack.
can_redo_of_undo(self) == self.undo_stack # <<>>

\* can_redo = bool(todo._redo_stack)
can_redo(self) == self.redo_stack # <<>>

\* ------------------------------------------------------------------ calls
\* The indices tried by remove_task: below, inside and above any list.
Indices == -1..(MaxTasks + 1)

\* A call of a ToDoStack method that returns the object as new.
Call(op, new) ==
    /\ todo' = new
    /\ last_op' = [op |-> op, effective |-> new # todo]
    /\ mutations' =
         IF op \in {"add_task", "remove_task", "clear"} /\ mutations >= 0
         THEN mutations + (IF new # todo THEN 1 ELSE 0)
         ELSE -1
    /\ UNCHANGED <<users, current_user, show_panel, message, logged>>

\* The model stops growing a list of MaxTasks tasks and a stack of MaxHist snapshots.
Room(self) ==
    /\ Len(self.lists[self.tasks]) < MaxTasks
    /\ Len(self.undo_stack) < MaxHist

AddTaskCall(text, deadline) ==
    /\ Truthy(text) => Room(todo)
    /\ Call("add_task", add_task(todo, text, deadline))

AddTask == \E arg \in Arguments : AddTaskCall(arg.text, arg.deadline)

RemoveTaskCall(index) ==
    /\ (0 <= index /\ index < Len(todo.lists[todo.tasks])) => Len(todo.undo_stack) < MaxHist
    /\ Call("remove_task", remove_task(todo, index))

RemoveTask == \E index \in Indices : RemoveTaskCall(index)

Clear ==
    /\ todo.lists[todo.tasks] # <<>> => Len(todo.undo_stack) < MaxHist
    /\ Call("clear", clear(todo))

Undo == Call("undo", undo(todo))

Redo == Call("redo", redo(todo))

\* Construction: the session state of a new session (app.py, lines 67-78).
Init ==
    /\ todo = Collect(ToDoStack)
    /\ users = << >>
    /\ current_user = None
    /\ show_panel = FALSE
    /\ message = "none"
    /\ last_op = [op |-> "init", effective |-> FALSE]
    /\ mutations = 0
    /\ logged = {}

\* The ToDoStack driven through its methods, with any arguments.
Next == AddTask \/ RemoveTask \/ Clear \/ Undo \/ Redo

Spec == Init /\ [][Next]_vars

\* ------------------------------------------------------------------ exposed objects
\* self.tasks is a public attribute: a caller holding it can assign a field of
\* a task dict of the live list, and can change the live list in place.

\* todo.tasks[i][field] = value, i counted from 0
set_field(self, i, field, value) ==
    LET d == self.lists[self.tasks][i + 1]
    IN  [self EXCEPT !.dicts[d] =
            IF field = "text" THEN [@ EXCEPT !.text = value]
            ELSE [@ EXCEPT !.deadline = value]]

\* todo.tasks.append({"text": text, "deadline": deadline}), past add_task
list_append(self, text, deadline) ==
    LET d == Min(DictIds \ DOMAIN self.dicts)
    IN  Collect([self EXCEPT
            !.dicts = (d :> Task(text, deadline)) @@ self.dicts,
            !.lists[self.tasks] = Append(@, d)])

\* todo.tasks.pop(), past remove_task
list_pop(self) ==
    Collect([self EXCEPT !.lists[self.tasks] = SubSeq(@, 1, Len(@) - 1)])

\* The text a caller writes into a task.
Edited == <<"x">>

SetField ==
    \E i \in 0..(Len(todo.lists[todo.tasks]) - 1) :
        Call("set_field", set_field(todo, i, "text", Edited))

\* The one task the methods are given in this specification.
AddPlain == AddTaskCall(<<"a">>, None)

\* The ToDoStack driven through its methods by a caller that also writes to
\* the task objects it exposes.
NextExposed ==
    \/ AddPlain \/ RemoveTask \/ Clear \/ Undo \/ Redo
    \/ SetField

SpecExposed == Init /\ [][NextExposed]_vars

\* ------------------------------------------------------------------ todo_stack.py
\* The ToDoStack of todo_stack.py: add_task without a guard, snapshots made
\* with list(), no remove_task and no clear.  A task is whatever object the
\* caller passes; here an object holding a text.

\* list(l): a new list object holding the same task objects.
list_copy(self, l) ==
    LET nl == Min(ListIds \ DOMAIN self.lists)
    IN  [obj |-> [self EXCEPT !.lists = (nl :> self.lists[l]) @@ self.lists],
         ref |-> nl]

\* todo_stack.py add_task(task)
ts_add_task(self, task) ==
    LET c == list_copy(self, self.tasks)
        s == [c.obj EXCEPT !.undo_stack = Append(self.undo_stack, c.ref)]
        d == Min(DictIds \ DOMAIN s.dicts)
    IN  Collect([s EXCEPT
            !.dicts = (d :> task) @@ s.dicts,
            !.lists[s.tasks] = Append(s.lists[s.tasks], d),
            !.redo_stack = <<>>])

\* todo_stack.py undo()
ts_undo(self) ==
    IF self.undo_stack = <<>> THEN self
    ELSE LET c == list_copy(self, self.tasks)
             n == Len(self.undo_stack)
         IN  Collect([c.obj EXCEPT
                 !.redo_stack = Append(self.redo_stack, c.ref),
                 !.tasks = self.undo_stack[n],
                 !.undo_stack = SubSeq(self.undo_stack, 1, n - 1)])

\* todo_stack.py redo()
ts_redo(self) ==
    IF self.redo_stack = <<>> THEN self
    ELSE LET c == list_copy(self, self.tasks)
             n == Len(self.redo_stack)
         IN  Collect([c.obj EXCEPT
                 !.undo_stack = Append(self.undo_stack, c.ref),
                 !.tasks = self.redo_stack[n],
                 !.redo_stack = SubSeq(self.redo_stack, 1, n - 1)])

StackAdd ==
    \E task \in Texts :
        /\ Room(todo)
        /\ Call("add_task", ts_add_task(todo, task))

StackUndo == Call("undo", ts_undo(todo))

StackRedo == Call("redo", ts_redo(todo))

NextStack == StackAdd \/ StackUndo \/ StackRedo

\* The ToDoStack of todo_stack.py driven through its methods.
SpecStack == Init /\ [][NextStack]_vars

\* ------------------------------------------------------------------ session
\* hash_password: sha256 of the text, modelled as an injective tagging.
hash_password(plain) == <<"sha256">> \o plain

\* The account directory and the identity of a session, as signup, login and
\* logout read and write them in st.session_state.
Session == [users |-> users, current_user |-> current_user]

\* A signup that logs the new user in.
signup_auto_login(st, username, password) ==
    IF ~Truthy(username) \/ ~Truthy(password)
    THEN [st |-> st, message |-> "warning: enter both", ok |-> FALSE]
    ELSE IF username \in DOMAIN st.users
    THEN [st |-> st, message |-> "warning: username exists", ok |-> FALSE]
    ELSE [st |-> [users |-> (username :> hash_password(password)) @@ st.users,
                  current_user |-> username],
          message |-> "success: signed up", ok |-> TRUE]

\* A signup that does not test the password.
signup_no_password_check(st, username, password) ==
    IF ~Truthy(username)
    THEN [st |-> st, message |-> "warning: enter both", ok |-> FALSE]
    ELSE IF username \in DOMAIN st.users
    THEN [st |-> st, message |-> "warning: username exists", ok |-> FALSE]
    ELSE [st |-> [st EXCEPT !.users = (username :> hash_password(password)) @@ @],
          message |-> "success: signed up", ok |-> TRUE]

\* A signup that stores the new hash under a username that exists.
signup_overwrite(st, username, password) ==
    IF ~Truthy(username) \/ ~Truthy(password)
    THEN [st |-> st, message |-> "warning: enter both", ok |-> FALSE]
    ELSE [st |-> [st EXCEPT !.users = (username :> hash_password(password)) @@ @],
          message |-> "success: signed up", ok |-> TRUE]

\* signup(username, password)
signup(st, username, password) ==
    IF ~Truthy(username) \/ ~Truthy(password)
    THEN [st |-> st, message |-> "warning: enter both", ok |-> FALSE]
    ELSE IF username \in DOMAIN st.users
    THEN [st |-> st, message |-> "warning: username exists", ok |-> FALSE]
    ELSE [st |-> [st EXCEPT !.users = (username :> hash_password(password)) @@ @],
          message |-> "success: signed up", ok |-> TRUE]

\* A login that accepts any password of a registered username.
login_any_password(st, username, password) ==
    IF username \notin DOMAIN st.users
    THEN [st |-> st, message |-> "error: no such user", ok |-> FALSE]
    ELSE [st |-> [st EXCEPT !.current_user = username],
          message |-> "success: logged in", ok |-> TRUE]

\* A login that does not look the username up before it sets the identity.
login_unregistered(st, username, password) ==
    IF username \in DOMAIN st.users /\ st.users[username] # hash_password(password)
    THEN [st |-> st, message |-> "error: incorrect password", ok |-> FALSE]
    ELSE [st |-> [st EXCEPT !.current_user = username],
          message |-> "success: logged in", ok |-> TRUE]

\* login(username, password)
login(st, username, password) ==
    IF username \notin DOMAIN st.users
    THEN [st |-> st, message |-> "error: no such user", ok |-> FALSE]
    ELSE IF st.users[username] # hash_password(password)
    THEN [st |-> st, message |-> "error: incorrect password", ok |-> FALSE]
    ELSE [st |-> [st EXCEPT !.current_user = username],
          message |-> "success: logged in", ok |-> TRUE]

\* logout()
logout(st) == [st EXCEPT !.current_user = None]

\* ------------------------------------------------------------------ the page
\* One run of the script handles one widget event.

\* What is typed into the username and password fields.
Usernames == {<<>>, <<Space>>, <<"a">>, <<Space, "b">>}

Passwords == {<<>>, <<Space>>, <<"p">>}

\* What is typed into the task field of the form.
TaskTexts == {<<>>, <<Space, Space>>, <<Space, "t", Space>>}

\* What the date and time widgets return when they are shown.
Dates == {Today}

Noon == <<12, 0>>

\* st.time_input without value=None always returns a time.
Times == {Noon}

\* The submit handler of the log-in form: login(uname.strip(), pwd)
login_form(st, uname, pwd) == login(st, strip(uname), pwd)

\* The submit handler of the sign-up form: signup(uname2.strip(), pwd2)
signup_form(st, uname2, pwd2) == signup(st, strip(uname2), pwd2)

\* A run that leaves the session with st and the ToDoStack with new.
Run(op, st, new, msg) ==
    /\ users' = st.users
    /\ current_user' = st.current_user
    /\ todo' = new
    /\ message' = msg
    /\ last_op' = [op |-> op, effective |-> new # todo \/ st # Session]
    /\ mutations' =
         IF op \in {"add", "delete", "clear all"} /\ mutations >= 0
         THEN mutations + (IF new # todo THEN 1 ELSE 0)
         ELSE -1
    /\ logged' = IF st.current_user = None THEN logged ELSE logged \cup {st.current_user}
    /\ UNCHANGED show_panel

\* The hamburger button (lines 119-121)
Hamburger ==
    /\ show_panel' = ~show_panel
    /\ last_op' = [op |-> "hamburger", effective |-> TRUE]
    /\ message' = "none"
    /\ UNCHANGED <<todo, users, current_user, mutations, logged>>

\* The Logout button, shown while logged in (lines 123-126)
LogoutClick ==
    /\ Truthy(current_user)
    /\ Run("logout", logout(Session), todo, "none")

\* The log-in form, shown while not logged in (lines 129-141)
LoginSubmit(uname, pwd) ==
    /\ ~Truthy(current_user)
    /\ LET r == login_form(Session, uname, pwd)
       IN  Run("login", r.st, todo, r.message)

\* The sign-up form, shown while not logged in (lines 143-151)
SignupSubmit(uname2, pwd2) ==
    /\ ~Truthy(current_user)
    /\ LET r == signup_form(Session, uname2, pwd2)
       IN  Run("signup", r.st, todo, r.message)

\* The page stops growing a list of MaxTasks tasks and a stack of MaxPageHist
\* snapshots.
PageRoom(self) ==
    /\ Len(self.lists[self.tasks]) < MaxTasks
    /\ Len(self.undo_stack) < MaxPageHist

\* The first task form: its submit handler adds nothing (lines 175-197)
AddTaskFormSubmit ==
    /\ Truthy(current_user)
    /\ Run("add_task_form", Session, todo, "none")

\* datetime.combine(date, time)
combine(d, t) == <<d, t>>

\* The deadline the second form computes (lines 210-216)
deadline_dt(want_deadline, dl_date, dl_time) ==
    IF want_deadline /\ dl_date # None
    THEN IF dl_time # None THEN combine(dl_date, dl_time)
         ELSE combine(dl_date, Midnight)
    ELSE None

\* The second task form (lines 200-218)
AddSubmit(t_text, want_deadline, dl_date, dl_time) ==
    /\ Truthy(current_user)
    /\ IF Truthy(strip(t_text))
       THEN /\ PageRoom(todo)
            /\ Run("add", Session,
                   add_task(todo, strip(t_text),
                            deadline_dt(want_deadline, dl_date, dl_time)),
                   "success: task added")
       ELSE Run("add", Session, todo, "none")

\* An Undo button that is drawn before the log-in gate.
UndoClick_ungated == Run("undo", Session, undo(todo), "none")

\* The Undo, Redo and Clear all buttons (lines 221-230)
UndoClick == Truthy(current_user) /\ Run("undo", Session, undo(todo), "none")

RedoClick == Truthy(current_user) /\ Run("redo", Session, redo(todo), "none")

ClearClick ==
    /\ Truthy(current_user)
    /\ todo.lists[todo.tasks] # <<>> => Len(todo.undo_stack) < MaxPageHist
    /\ Run("clear all", Session, clear(todo), "none")

\* The indices idx for which the main area draws a row with a Delete button
\* (lines 234-250): the body of the loop of line 237 is lines 238-240, and the
\* row of lines 241-250 is drawn once, after the loop, with the last idx.
delete_buttons(self) ==
    IF self.lists[self.tasks] = <<>> THEN {}
    ELSE {Len(self.lists[self.tasks]) - 1}

\* The Delete button (lines 234-250): the loop of line 237 ends before the row
\* is drawn, so one button is drawn, with idx the index of the last task.
DeleteClick ==
    /\ Truthy(current_user)
    /\ Len(todo.undo_stack) < MaxPageHist
    /\ \E idx \in delete_buttons(todo) :
           Run("delete", Session, remove_task(todo, idx), "none")

NextApp ==
    \/ Hamburger
    \/ LogoutClick
    \/ \E uname \in Usernames, pwd \in Passwords : LoginSubmit(uname, pwd)
    \/ \E uname2 \in Usernames, pwd2 \in Passwords : SignupSubmit(uname2, pwd2)
    \/ AddTaskFormSubmit
    \/ \E t_text \in TaskTexts, dl_time \in Times :
           \/ AddSubmit(t_text, FALSE, None, None)
           \/ \E dl_date \in Dates : AddSubmit(t_text, TRUE, dl_date, dl_time)
    \/ UndoClick
    \/ RedoClick
    \/ ClearClick
    \/ DeleteClick

\* The application: the page of app.py, driven by its widgets.
SpecApp == Init /\ [][NextApp]_vars

\* ------------------------------------------------------------------ claims
Mutating == {"add_task", "remove_task", "clear"}

\* new is old with exactly one snapshot pushed, the task list of old, and an
\* empty redo stack.
Snapshotted(old, new) ==
    /\ UndoOf(new) = Append(UndoOf(old), TasksOf(old))
    /\ new.redo_stack = <<>>

\* C1: every effective add_task (non-empty text), remove_task (index in range)
\* and clear (non-empty list) pushes exactly one snapshot, equal to the task
\* list before the call, and leaves the redo stack empty; and from a fresh
\* history, while only these three methods are called, the undo stack is as
\* long as the number of effective calls.
C1_OneSnapshotPerMutation ==
    /\ \A text \in Texts, deadline \in Deadlines :
           Truthy(text) => Snapshotted(todo, add_task(todo, text, deadline))
    /\ \A index \in Indices :
           (0 <= index /\ index < Len(TasksOf(todo)))
               => Snapshotted(todo, remove_task(todo, index))
    /\ TasksOf(todo) # <<>> => Snapshotted(todo, clear(todo))
    /\ mutations >= 0 => Len(todo.undo_stack) = mutations

C1_Witness ==
    /\ last_op.op \in Mutating /\ last_op.effective
    /\ mutations = MaxHist
    /\ Len(todo.undo_stack) = MaxHist
    /\ TasksOf(todo) # <<>>
    /\ Snapshotted(todo, clear(todo))

\* C2: where the undo stack is not empty, undo() then redo() gives back the
\* task list and both stacks; where the redo stack is not empty, redo() then
\* undo() does.
C2_UndoRedoRoundTrip ==
    /\ todo.undo_stack # <<>> => View(redo(undo(todo))) = View(todo)
    /\ todo.redo_stack # <<>> => View(undo(redo(todo))) = View(todo)

C2_Witness ==
    /\ last_op = [op |-> "redo", effective |-> TRUE]
    /\ todo.undo_stack # <<>> /\ todo.redo_stack # <<>>
    /\ TasksOf(todo) # <<>>
    /\ View(undo(todo)) # View(todo)
    /\ View(redo(undo(todo))) = View(todo)

\* C3 as stated: after an undo(), any call of add_task, remove_task or clear
\* leaves the redo stack empty.
C3_AnyCallClearsRedo ==
    (last_op.op = "undo" /\ last_op.effective) =>
        /\ \A text \in Texts, deadline \in Deadlines :
               add_task(todo, text, deadline).redo_stack = <<>>
        /\ \A index \in Indices : remove_task(todo, index).redo_stack = <<>>
        /\ clear(todo).redo_stack = <<>>

\* new has an empty redo stack, and redo() does nothing to it.
RedoSpent(new) == new.redo_stack = <<>> /\ redo(new) = new

\* C3, amended: any effective call of add_task, remove_task or clear (also
\* after an undo()) leaves the redo stack empty, so that a redo() right after
\* it changes nothing; a call that is a guarded no-op leaves the redo stack
\* as it was.
C3_EffectiveCallClearsRedo ==
    /\ \A text \in Texts, deadline \in Deadlines :
           LET new == add_task(todo, text, deadline)
           IN  IF Truthy(text) THEN RedoSpent(new) ELSE RedoOf(new) = RedoOf(todo)
    /\ \A index \in Indices :
           LET new == remove_task(todo, index)
           IN  IF 0 <= index /\ index < Len(TasksOf(todo))
               THEN RedoSpent(new) ELSE RedoOf(new) = RedoOf(todo)
    /\ LET new == clear(todo)
       IN  IF TasksOf(todo) # <<>> THEN RedoSpent(new) ELSE RedoOf(new) = RedoOf(todo)

C3_Witness ==
    /\ last_op = [op |-> "undo", effective |-> TRUE]
    /\ todo.redo_stack # <<>>
    /\ TasksOf(todo) # <<>>
    /\ RedoSpent(clear(todo))
    /\ redo(todo) # todo

\* C4 as stated: add_task with a text that is empty after trimming whitespace
\* changes nothing.
C4_BlankTextIsNoOp ==
    [][\A text \in Texts, deadline \in Deadlines :
          (strip(text) = <<>> /\ AddTaskCall(text, deadline)) => View(todo') = View(todo)]_vars

\* C5: remove_task with an index below 0 or not below the length, clear on an
\* empty list, undo with an empty undo stack and redo with an empty redo stack
\* leave the task list and both stacks as they were.
C5_GuardedNoOps ==
    /\ \A index \in Indices :
           (index < 0 \/ index >= Len(TasksOf(todo))) => remove_task(todo, index) = todo
    /\ TasksOf(todo) = <<>> => clear(todo) = todo
    /\ todo.undo_stack = <<>> => undo(todo) = todo
    /\ todo.redo_stack = <<>> => redo(todo) = todo

C5_Witness ==
    /\ last_op = [op |-> "remove_task", effective |-> FALSE]
    /\ Len(TasksOf(todo)) = MaxTasks
    /\ todo.undo_stack # <<>> /\ todo.redo_stack = <<>>
    /\ remove_task(todo, -1) = todo /\ remove_task(todo, MaxTasks) = todo

Reverse(s) == [i \in DOMAIN s |-> s[Len(s) + 1 - i]]

\* The history read from the oldest state to the newest: the undo stack, the
\* current list, the redo stack from its top down.
Timeline(self) == UndoOf(self) \o <<TasksOf(self)>> \o Reverse(RedoOf(self))

IsPrefix(s, t) == Len(s) <= Len(t) /\ SubSeq(t, 1, Len(s)) = s

\* C7: undo() and redo() keep the timeline (undo stack, current list, redo
\* stack from its top down), hence the sum of the two stack lengths; add_task,
\* remove_task and clear keep every snapshot of the undo stack, and drop the
\* redo stack only when they are effective.
C7_NoSnapshotDiscarded ==
    /\ Timeline(undo(todo)) = Timeline(todo)
    /\ Timeline(redo(todo)) = Timeline(todo)
    /\ Len(undo(todo).undo_stack) + Len(undo(todo).redo_stack)
           = Len(todo.undo_stack) + Len(todo.redo_stack)
    /\ Len(redo(todo).undo_stack) + Len(redo(todo).redo_stack)
           = Len(todo.undo_stack) + Len(todo.redo_stack)
    /\ \A text \in Texts, deadline \in Deadlines :
           LET new == add_task(todo, text, deadline)
           IN  /\ IsPrefix(UndoOf(todo), UndoOf(new))
               /\ RedoOf(new) # RedoOf(todo) => Truthy(text)
    /\ \A index \in Indices :
           LET new == remove_task(todo, index)
           IN  /\ IsPrefix(UndoOf(todo), UndoOf(new))
               /\ RedoOf(new) # RedoOf(todo) => (0 <= index /\ index < Len(TasksOf(todo)))
    /\ LET new == clear(todo)
       IN  /\ IsPrefix(UndoOf(todo), UndoOf(new))
           /\ RedoOf(new) # RedoOf(todo) => TasksOf(todo) # <<>>

C7_Witness ==
    /\ last_op = [op |-> "undo", effective |-> TRUE]
    /\ Len(todo.redo_stack) >= 2 /\ todo.undo_stack # <<>>
    /\ Len(Timeline(todo)) = MaxHist + 1
    /\ redo(todo) # todo /\ Timeline(redo(todo)) = Timeline(todo)

\* C8: add_task with a non-empty text gives the old list with the new task as
\* its last element; remove_task(i) with 0 <= i < n gives the old list without
\* the element at position i, the elements before it in place and the
\* elements after it one place to the left.
C8_AppendAndRemoveAt ==
    LET old == TasksOf(todo)
        n   == Len(old)
    IN  /\ \A text \in Texts, deadline \in Deadlines :
               Truthy(text) =>
                   LET new == TasksOf(add_task(todo, text, deadline))
                   IN  /\ Len(new) = n + 1
                       /\ \A k \in 1..n : new[k] = old[k]
                       /\ new[n + 1] = Task(text, deadline)
        /\ \A i \in 0..(n - 1) :
               LET new == TasksOf(remove_task(todo, i))
               IN  /\ Len(new) = n - 1
                   /\ \A k \in 0..(i - 1) : new[k + 1] = old[k + 1]
                   /\ \A k \in i..(n - 2) : new[k + 1] = old[k + 2]

C8_Witness ==
    /\ last_op = [op |-> "remove_task", effective |-> TRUE]
    /\ Len(TasksOf(todo)) = 1
    /\ LET before == UndoOf(todo)[Len(todo.undo_stack)]
       IN  /\ Len(before) = 2
           /\ before[1] # before[2]
           /\ TasksOf(todo) = <<before[2]>>

\* No list object and no task object is referenced from two places of the
\* undo stack, the task list and the redo stack.
NoSharing(self) ==
    LET refs == self.undo_stack \o <<self.tasks>> \o self.redo_stack
    IN  \A i, j \in DOMAIN refs :
            i # j => /\ refs[i] # refs[j]
                     /\ Range(self.lists[refs[i]]) \cap Range(self.lists[refs[j]]) = {}

\* new holds the same snapshots as old, as values.
SameSnapshots(old, new) == UndoOf(new) = UndoOf(old) /\ RedoOf(new) = RedoOf(old)

Verifies(username, password) ==
    /\ username \in DOMAIN users
    /\ users[username] = hash_password(password)

\* C9: the session identity starts as None; a log-in whose credentials verify,
\* made while it is None, sets it to the username; logout sets it to None;
\* sign-up and a log-in whose credentials do not verify leave it as it is;
\* nothing else changes it, and it never goes from one username to another.
C9_SessionStateMachine ==
    /\ current_user = None
    /\ [][/\ (last_op'.op = "logout" /\ LogoutClick) => current_user' = None
          /\ last_op'.op = "signup" =>
                 \A u \in Usernames, p \in Passwords :
                     SignupSubmit(u, p) => current_user' = current_user
          /\ last_op'.op = "login" =>
                 \A u \in Usernames, p \in Passwords :
                     LoginSubmit(u, p) =>
                         /\ current_user = None
                         /\ current_user' = IF Verifies(strip(u), p) THEN strip(u)
                                            ELSE current_user
          /\ current_user' # current_user =>
                 \/ LogoutClick
                 \/ \E u \in Usernames, p \in Passwords :
                        LoginSubmit(u, p) /\ Verifies(strip(u), p)
          /\ (current_user # None /\ current_user' # None) =>
                 current_user' = current_user]_vars

C9_Witness ==
    /\ last_op.op = "login" /\ message = "success: logged in"
    /\ current_user = <<"b">>
    /\ Cardinality(DOMAIN users) = 2

\* C10 as stated: a sign-up whose username or password is empty after trimming
\* whitespace reports the validation outcome and stores nothing.
C10_BlankCredentialsRejected ==
    [][\A u \in Usernames, p \in Passwords :
          ((strip(u) = <<>> \/ strip(p) = <<>>) /\ SignupSubmit(u, p)) =>
              (message' = "warning: enter both" /\ users' = users)]_vars

\* C10, amended: a sign-up whose username is empty after trimming whitespace,
\* or whose password is the empty string, reports the validation outcome and
\* leaves the account directory (and the identity) as it was; the password is
\* not trimmed, and a whitespace-only password is stored, hashed, under a
\* username that is new.
C10_EmptyCredentialsRejected ==
    \A u \in Usernames, p \in Passwords :
        LET r == signup_form(Session, u, p)
        IN  /\ (strip(u) = <<>> \/ p = <<>>) =>
                   /\ r.message = "warning: enter both" /\ ~r.ok
                   /\ r.st = Session
            /\ (strip(u) # <<>> /\ p # <<>> /\ strip(p) = <<>>
                    /\ strip(u) \notin DOMAIN users) =>
                   /\ r.ok
                   /\ DOMAIN r.st.users = DOMAIN users \cup {strip(u)}
                   /\ r.st.users[strip(u)] = hash_password(p)
                   /\ \A v \in DOMAIN users : r.st.users[v] = users[v]

C10_Witness ==
    /\ last_op.op = "signup" /\ message = "warning: enter both"
    /\ \E v \in DOMAIN users : users[v] = hash_password(<<Space>>)

\* C11: a registered username stays registered with the digest it was stored
\* with, whatever step is taken; and a sign-up with a registered username (after
\* trimming) and a password sign-up accepts reports that the username exists
\* and leaves the session as it was, so that every password verifies after it
\* exactly when it verified before, and the new one verifies only if it is the
\* one stored.
C11_AccountsWriteOnce ==
    /\ [][\A u \in DOMAIN users : u \in DOMAIN users' /\ users'[u] = users[u]]_vars
    /\ [](\A u \in Usernames, p \in Passwords :
              (strip(u) \in DOMAIN users /\ Truthy(p)) =>
                  LET r == signup_form(Session, u, p)
                  IN  /\ r.message = "warning: username exists" /\ ~r.ok
                      /\ r.st = Session
                      /\ \A q \in Passwords :
                             login(r.st, strip(u), q).ok <=> Verifies(strip(u), q)
                      /\ users[strip(u)] # hash_password(p) =>
                             login(r.st, strip(u), p).message = "error: incorrect password")

C11_Witness ==
    /\ last_op.op = "signup" /\ message = "warning: username exists"
    /\ \E u \in DOMAIN users, p \in Passwords :
           /\ Truthy(p) /\ users[u] # hash_password(p)
           /\ signup(Session, u, p).message = "warning: username exists"
           /\ \E q \in Passwords : Verifies(u, q)

\* C12: login has exactly three outcomes: "no such user" when the username is
\* not registered, whatever the password; "incorrect password" when it is
\* registered and the hash of the password is not the stored digest; success,
\* with the identity set to that username, when it is; the first two leave the
\* session as it was.  After a sign-up that succeeds with password p1, a
\* log-in with p1 succeeds and a log-in with any other password reports
\* "incorrect password".
C12_VerifyOutcomes ==
    /\ \A u \in Usernames, p \in Passwords :
           LET name == strip(u)
               r    == login(Session, name, p)
           IN  /\ name \notin DOMAIN users =>
                      r.message = "error: no such user" /\ ~r.ok /\ r.st = Session
               /\ (name \in DOMAIN users /\ users[name] # hash_password(p)) =>
                      r.message = "error: incorrect password" /\ ~r.ok /\ r.st = Session
               /\ (name \in DOMAIN users /\ users[name] = hash_password(p)) =>
                      /\ r.message = "success: logged in" /\ r.ok
                      /\ r.st = [users |-> users, current_user |-> name]
    /\ \A u \in Usernames, p1 \in Passwords :
           LET name == strip(u)
               reg  == signup(Session, name, p1)
           IN  reg.ok =>
                   \A p2 \in Passwords :
                       LET r == login(reg.st, name, p2)
                       IN  IF p2 = p1
                           THEN r.ok /\ r.st.current_user = name
                           ELSE r.message = "error: incorrect password" /\ ~r.ok

C12_Witness ==
    /\ last_op.op = "login" /\ message = "error: incorrect password"
    /\ current_user = None
    /\ \E u \in DOMAIN users : users[u] = hash_password(<<"p">>)

\* C13: the ToDoStack (task list, undo stack, redo stack) changes only in steps
\* taken while the session identity is a username; while it is None the only
\* events the page handles are the hamburger, a log-in and a sign-up, and none
\* of them changes the ToDoStack.
C13_SessionGatesTasks ==
    [][/\ todo' # todo => (current_user # None /\ current_user \in DOMAIN users)
       /\ current_user = None =>
              /\ View(todo') = View(todo)
              /\ last_op'.op \in {"hamburger", "login", "signup"}]_vars

C13_Witness ==
    /\ last_op.op = "logout" /\ current_user = None
    /\ todo.undo_stack # <<>> /\ todo.redo_stack # <<>>
    /\ undo(todo) # todo /\ redo(todo) # todo /\ clear(todo) # todo

BuyMilk == <<"b", "u", "y", Space, "m", "i", "l", "k">>

\* C14: from a fresh ToDoStack, add_task(t) with t "buy milk" or any other
\* non-empty text gives the task list [t] with can_undo true and can_redo
\* false; undo() then gives the empty list with can_redo true; redo() then
\* gives [t] again; and in every reachable state can_undo / can_redo hold
\* exactly when the undo stack / redo stack is non-empty, which is exactly
\* when undo() / redo() changes the ToDoStack.
C14_ScenarioA ==
    /\ can_undo(todo) <=> Len(todo.undo_stack) > 0
    /\ can_redo(todo) <=> Len(todo.redo_stack) > 0
    /\ can_undo(todo) <=> undo(todo) # todo
    /\ can_redo(todo) <=> redo(todo) # todo
    /\ todo = Collect(ToDoStack) =>
           /\ TasksOf(todo) = <<>> /\ ~can_undo(todo) /\ ~can_redo(todo)
           /\ \A t \in Texts \cup {BuyMilk}, deadline \in Deadlines :
                  Truthy(t) =>
                      LET s1 == add_task(todo, t, deadline)
                          s2 == undo(s1)
                          s3 == redo(s2)
                      IN  /\ TextsOf(s1) = <<t>> /\ can_undo(s1) /\ ~can_redo(s1)
                          /\ TextsOf(s2) = <<>> /\ can_redo(s2)
                          /\ TextsOf(s3) = <<t>> /\ TasksOf(s3) = TasksOf(s1)

C14_Witness ==
    /\ last_op = [op |-> "redo", effective |-> TRUE]
    /\ TextsOf(todo) = <<<<"a">>>>
    /\ UndoOf(todo) = << <<>> >> /\ ~can_redo(todo) /\ can_undo(todo)
    /\ View(redo(undo(todo))) = View(todo)

\* The ToDoStack after add_task(a), add_task(b), remove_task(0) on self.
ScenarioC(self, a, b) ==
    remove_task(add_task(add_task(self, a.text, a.deadline), b.text, b.deadline), 0)

\* The tasks with a text that add_task accepts.
Accepted == {arg \in Arguments : Truthy(arg.text)}

\* C15 as stated: from a fresh ToDoStack, add_task(a), add_task(b),
\* remove_task(0) gives [b]; undo() gives [a, b]; a second undo() gives [a],
\* with the undo stack then empty, so that a third undo() changes nothing.
C15_ThirdUndoIsNoOp ==
    todo = Collect(ToDoStack) =>
        \A a, b \in Accepted :
            LET s3 == ScenarioC(todo, a, b)
                u1 == undo(s3)
                u2 == undo(u1)
                u3 == undo(u2)
            IN  /\ TasksOf(s3) = <<b>>
                /\ TasksOf(u1) = <<a, b>>
                /\ TasksOf(u2) = <<a>>
                /\ u2.undo_stack = <<>>
                /\ u3 = u2 /\ TasksOf(u3) = <<a>>

\* C15, amended: from a fresh ToDoStack, add_task(a), add_task(b),
\* remove_task(0) gives [b] over three snapshots; undo() gives [a, b]; a second
\* undo() gives [a], with one snapshot, the empty list, still on the undo
\* stack; a third undo() gives the empty list and empties the undo stack; only
\* the fourth undo() changes nothing.
C15_ScenarioC ==
    todo = Collect(ToDoStack) =>
        \A a, b \in Accepted :
            LET s3 == ScenarioC(todo, a, b)
                u1 == undo(s3)
                u2 == undo(u1)
                u3 == undo(u2)
                u4 == undo(u3)
            IN  /\ TasksOf(s3) = <<b>>
                /\ UndoOf(s3) = << <<>>, <<a>>, <<a, b>> >>
                /\ TasksOf(u1) = <<a, b>>
                /\ TasksOf(u2) = <<a>>
                /\ UndoOf(u2) = << <<>> >> /\ can_undo(u2)
                /\ TasksOf(u3) = <<>> /\ ~can_undo(u3)
                /\ RedoOf(u3) = << <<b>>, <<a, b>>, <<a>> >>
                /\ u4 = u3

C15_Witness ==
    /\ last_op = [op |-> "undo", effective |-> TRUE]
    /\ TasksOf(todo) = <<>> /\ todo.undo_stack = <<>>
    /\ \E a, b \in Accepted :
           /\ a # b
           /\ RedoOf(todo) = << <<b>>, <<a, b>>, <<a>> >>
    /\ undo(todo) = todo

\* C16: a username that logs in for the first time in the session, so that
\* every task the ToDoStack holds was added under another username, finds no
\* task in the task list and none in a snapshot undo() or redo() can restore.
C16_TasksArePersonal ==
    [][(current_user = None /\ current_user' # None /\ current_user' \notin logged) =>
           \A k \in DOMAIN Timeline(todo') : Timeline(todo')[k] = <<>>]_vars

\* C17: while logged in, the main area draws a Delete button for every
\* position of the task list, and the Delete button of position i removes the
\* task at position i and no other.
C17_EveryTaskHasDelete ==
    current_user # None =>
        /\ delete_buttons(todo) = 0..(Len(TasksOf(todo)) - 1)
        /\ \A i \in delete_buttons(todo) :
               LET new == TasksOf(remove_task(todo, i))
               IN  /\ Len(new) = Len(TasksOf(todo)) - 1
                   /\ \A k \in 0..(i - 1) : new[k + 1] = TasksOf(todo)[k + 1]
                   /\ \A k \in i..(Len(new) - 1) : new[k + 1] = TasksOf(todo)[k + 2]

RECURSIVE UndoAll(_)
\* undo() repeated until the undo stack is empty.
UndoAll(self) == IF self.undo_stack = <<>> THEN self ELSE UndoAll(undo(self))

\* C18: in every state reachable from the fresh ToDoStack, an empty undo stack
\* comes with an empty task list and a non-empty undo stack has the empty list
\* as its oldest snapshot; so a non-empty task list can be undone, and undo()
\* repeated until it changes nothing ends at the empty list.
C18_HistoryRootedAtEmpty ==
    /\ todo.undo_stack = <<>> => TasksOf(todo) = <<>>
    /\ todo.undo_stack # <<>> => UndoOf(todo)[1] = <<>>
    /\ TasksOf(todo) # <<>> => (can_undo(todo) /\ undo(todo) # todo)
    /\ LET end == UndoAll(todo)
       IN  /\ TasksOf(end) = <<>>
           /\ undo(end) = end
           /\ Len(end.redo_stack) = Len(todo.redo_stack) + Len(todo.undo_stack)

C18_Witness ==
    /\ last_op = [op |-> "remove_task", effective |-> TRUE]
    /\ Len(todo.undo_stack) = MaxHist /\ TasksOf(todo) # <<>>
    /\ UndoOf(todo)[1] = <<>>
    /\ UndoAll(todo) # todo /\ TasksOf(UndoAll(todo)) = <<>>

\* C19: in every state reachable from the fresh ToDoStack, two neighbouring
\* entries of the timeline (undo stack, current list, redo stack from its top
\* down) are different lists; so undo() with a non-empty undo stack and redo()
\* with a non-empty redo stack change the task list.
C19_NoVisibleNoOp ==
    /\ \A k \in 1..(Len(Timeline(todo)) - 1) : Timeline(todo)[k] # Timeline(todo)[k + 1]
    /\ can_undo(todo) => TasksOf(undo(todo)) # TasksOf(todo)
    /\ can_redo(todo) => TasksOf(redo(todo)) # TasksOf(todo)

C19_Witness ==
    /\ last_op = [op |-> "clear", effective |-> TRUE]
    /\ Len(todo.undo_stack) >= 2 /\ TasksOf(todo) = <<>>
    /\ UndoOf(todo)[1] = <<>>
    /\ TasksOf(undo(todo)) # TasksOf(todo)

\* C20: in every reachable state the session identity is None or a registered
\* username; every registered username is a non-empty text, and its stored
\* digest is the hash of the password given in the sign-up that registered it
\* (a password that sign-up accepts).
C20_IdentityRegistered ==
    /\ [](current_user = None \/ current_user \in DOMAIN users)
    /\ [](\A u \in DOMAIN users :
              /\ u # <<>> /\ u # None /\ strip(u) = u
              /\ \E p \in Passwords : Truthy(p) /\ Verifies(u, p))
    /\ [][DOMAIN users' # DOMAIN users =>
              \E u \in Usernames, p \in Passwords :
                  /\ SignupSubmit(u, p)
                  /\ DOMAIN users' = DOMAIN users \cup {strip(u)}
                  /\ users'[strip(u)] = hash_password(p)]_vars

C20_Witness ==
    /\ current_user = <<"a">> /\ last_op.op = "login"
    /\ DOMAIN users = {<<"a">>, <<"b">>}
    /\ users[<<"a">>] = hash_password(<<Space>>)
    /\ users[<<"b">>] = hash_password(<<"p">>)

====
